---- MODULE Spec2Model ----
(***************************************************************************)
(* Model of pdm::generate (src/pdm/src/lib.rs), the delta-sigma pulse      *)
(* density modulator, and of the stock curve functions square_idx and      *)
(* sine_idx.                                                               *)
(*                                                                         *)
(* Real numbers are held in fixed point: the f64 value r is the integer    *)
(* r * One.  Values that are multiples of 1/2 are exact both in f64 and    *)
(* here.  The sine samples are sin(2*pi*k/32) rounded to 1/One; the        *)
(* accumulator of the sine run never comes closer to 0.0 than 0.0198       *)
(* (except the exact tie at index 0, where sin(0) = 0.0), which is far     *)
(* more than the accumulated rounding of 32 samples, so every comparison   *)
(* qe > 0.0 has the same outcome as in f64.                                *)
(***************************************************************************)
EXTENDS Integers, Sequences, FiniteSets, TLC

\* ------------------------------------------------------------- bounds
\* largest sample count N tried
MaxN == 32
\* largest byte count N_8 tried
MaxN8 == 5
\* largest square wave period tried
MaxP == 8
\* a caller-supplied curve returns k/2 with |k| <= MaxV (so up to +-1.5)
MaxV == 3
\* largest N tried with a caller-supplied curve
MaxFnN == 8

\* ------------------------------------------------------------- numbers
\* the literal 1.0 (and the unit of every f64 value of the model)
One == 10000

Abs(a) == IF a < 0 THEN -a ELSE a

\* what a caller-supplied curve fn(usize) -> f64 may return
FnValues == { k * (One \div 2) : k \in -MaxV..MaxV }

\* ------------------------------------------------------------- curves
\* mutant: the test off by one, (index % N) <= (N / 2)
square_idx_le(P, index) ==
    IF (index % P) <= (P \div 2) THEN -One ELSE One

square_idx(P, index) ==
    IF (index % P) < (P \div 2) THEN -One ELSE One

\* sin(k / 32 * 2 * PI) for k = 0..31
SinTable32 ==
    <<     0,  1951,  3827,  5556,  7071,  8315,  9239,  9808,
       10000,  9808,  9239,  8315,  7071,  5556,  3827,  1951,
           0, -1951, -3827, -5556, -7071, -8315, -9239, -9808,
      -10000, -9808, -9239, -8315, -7071, -5556, -3827, -1951 >>

\* sine_idx::<32>; generate only passes indices below N <= 32
sine_idx(index) == SinTable32[(index % 32) + 1]

\* the curves passed to generate: square_idx::<P>, sine_idx::<32>, or any
\* other function pointer
Curves ==
    [kind : {"square"}, P : 1..MaxP]
      \cup {[kind |-> "sine", P |-> 32]}
      \cup {[kind |-> "fn", P |-> 0]}

\* the values curve(index) can return
CurveResults(c, index) ==
    CASE c.kind = "square" -> { square_idx(c.P, index) }
      [] c.kind = "sine"   -> { sine_idx(index) }
      [] c.kind = "fn"     -> FnValues

\* ------------------------------------------------------------- the closures
\* mutant: the tie goes to 1, if qe >= 0.0
Quantize_ge(q, val) ==
    LET t == q + val
    IN  IF t >= 0 THEN [qe |-> t - One, bit |-> 1]
                  ELSE [qe |-> t + One, bit |-> 0]

\* mutant: the emitted value is not fed back into qe
Quantize_nofeedback(q, val) ==
    LET t == q + val
    IN  IF t > 0 THEN [qe |-> t, bit |-> 1]
                 ELSE [qe |-> t, bit |-> 0]

\* mutant: the two bits swapped
Quantize_inverted(q, val) ==
    LET t == q + val
    IN  IF t > 0 THEN [qe |-> t - One, bit |-> 0]
                 ELSE [qe |-> t + One, bit |-> 1]

\* |v| { qe += v; if qe > 0.0 { qe -= 1.0; 1 } else { qe += 1.0; 0 } }
Quantize(q, val) ==
    LET t == q + val
    IN  IF t > 0 THEN [qe |-> t - One, bit |-> 1]
                 ELSE [qe |-> t + One, bit |-> 0]

\* u8 << 1: bits shifted out of the byte are lost
Shl1(res) == (res * 2) % 256

\* u8 ^ u8
RECURSIVE Xor8(_, _)
Xor8(a, b) ==
    IF a = 0 /\ b = 0 THEN 0
    ELSE (((a % 2) + (b % 2)) % 2) + 2 * Xor8(a \div 2, b \div 2)

\* mutant: least significant bit first, (res >> 1) ^ (*b << 7)
FoldStep_lsb(res, b) == Xor8(res \div 2, b * 128)

\* |res, b| (res << 1) ^ *b
FoldStep(res, b) == Xor8(Shl1(res), b)

\* x.iter().fold(0u8, ...)
RECURSIVE Fold(_, _)
Fold(res, chunk) ==
    IF chunk = <<>> THEN res
    ELSE Fold(FoldStep(res, Head(chunk)), Tail(chunk))

\* the c-th (from 0) item of slice.array_chunks::<8>()
ArrayChunk(slice, c) == SubSeq(slice, 8 * c + 1, 8 * c + 8)

\* number of items of slice.array_chunks::<8>() (a remainder is skipped)
NumChunks(slice) == Len(slice) \div 8

\* mutant: the capacity test off by one
CanPush_short(vec, cap) == Len(vec) + 1 < cap

\* mutant: an unchecked push, no capacity test
CanPush_unchecked(vec, cap) == TRUE

\* heapless::Vec::push succeeds while the vector is below its capacity
CanPush(vec, cap) == Len(vec) < cap

\* mutant: the assertion compiled out (a debug_assert in a release build)
AssertHolds_off(n) == TRUE

\* assert_eq!(N % 8, 0)
AssertHolds(n) == n % 8 = 0

\* ------------------------------------------------------------- state
VARIABLES
    N,        \* const generic N: number of pdm bits
    N_8,      \* const generic N_8: capacity of the returned Vec
    curve,    \* the curve argument
    pc,       \* position in generate
    i,        \* next item of the range 0..N
    qe,       \* the accumulator
    v,        \* the sample the closure was last called with
    bits,     \* the Vec<u8, N> being collected
    x,        \* the Vec<u8, N_8> being collected, returned at the end
    sum,      \* history: sum of all samples evaluated so far
    evals,    \* history: number of calls of curve
    inRange   \* history: every sample so far was within [-1.0, 1.0]

vars == <<N, N_8, curve, pc, i, qe, v, bits, x, sum, evals, inRange>>

params == <<N, N_8, curve>>

Init ==
    /\ N \in 0..MaxN
    /\ N_8 \in 0..MaxN8
    /\ curve \in Curves
    /\ (curve.kind = "fn" => N <= MaxFnN)
    /\ pc = "entry"
    /\ i = 0
    /\ qe = 0
    /\ v = 0
    /\ bits = <<>>
    /\ x = <<>>
    /\ sum = 0
    /\ evals = 0
    /\ inRange = TRUE

\* assert_eq!(N % 8, 0); let mut qe = 0.0;
AssertMultipleOf8 ==
    /\ pc = "entry"
    /\ IF AssertHolds(N)
       THEN /\ pc' = "modulate"
            /\ qe' = 0
       ELSE /\ pc' = "panic_assert"
            /\ UNCHANGED qe
    /\ UNCHANGED <<params, i, v, bits, x, sum, evals, inRange>>

\* one item of (0..N).map(curve).map(|v| ...) pushed by collect::<Vec<u8, N>>()
Modulate ==
    /\ pc = "modulate"
    /\ i < N
    /\ \E val \in CurveResults(curve, i) :
         LET r == Quantize(qe, val)
         IN  /\ v' = val
             /\ evals' = evals + 1
             /\ sum' = sum + val
             /\ inRange' = (inRange /\ -One <= val /\ val <= One)
             /\ i' = i + 1
             /\ qe' = r.qe
             /\ IF CanPush(bits, N)
                THEN /\ bits' = Append(bits, r.bit)
                     /\ pc' = "modulate"
                ELSE /\ bits' = bits
                     /\ pc' = "panic_overflow"
    /\ UNCHANGED <<params, x>>

\* the range is exhausted: the Vec<u8, N> is complete
Collected ==
    /\ pc = "modulate"
    /\ i = N
    /\ pc' = "pack"
    /\ UNCHANGED <<params, i, qe, v, bits, x, sum, evals, inRange>>

\* one item of .array_chunks::<8>().map(fold) pushed by collect::<Vec<u8, N_8>>()
Pack ==
    /\ pc = "pack"
    /\ Len(x) < NumChunks(bits)
    /\ IF CanPush(x, N_8)
       THEN /\ x' = Append(x, Fold(0, ArrayChunk(bits, Len(x))))
            /\ pc' = "pack"
       ELSE /\ x' = x
            /\ pc' = "panic_overflow"
    /\ UNCHANGED <<params, i, qe, v, bits, sum, evals, inRange>>

\* the chunks are exhausted: x is returned
Return ==
    /\ pc = "pack"
    /\ Len(x) = NumChunks(bits)
    /\ pc' = "done"
    /\ UNCHANGED <<params, i, qe, v, bits, x, sum, evals, inRange>>

Next ==
    \/ AssertMultipleOf8
    \/ Modulate
    \/ Collected
    \/ Pack
    \/ Return

Spec == Init /\ [][Next]_vars

\* ------------------------------------------------------------- helpers of the properties
Returned == pc = "done"

Faulted == pc \in {"panic_assert", "panic_overflow"}

\* number of 1 bits among the first k emitted bits
RECURSIVE OnesUpTo(_)
OnesUpTo(k) == IF k = 0 THEN 0 ELSE bits[k] + OnesUpTo(k - 1)

Ones == OnesUpTo(Len(bits))

TypeOK ==
    /\ pc \in {"entry", "modulate", "pack", "done", "panic_assert", "panic_overflow"}
    /\ i \in 0..N
    /\ evals = i
    /\ Len(bits) = i
    /\ \A k \in 1..Len(bits) : bits[k] \in {0, 1}
    /\ \A k \in 1..Len(x) : x[k] \in 0..255

\* the parameters satisfy both preconditions: N % 8 == 0 and N_8 == N / 8
ValidParams == N % 8 = 0 /\ N_8 = N \div 8

\* the byte whose 8 binary digits, most significant first, are B(8c) .. B(8c+7)
MsbFirstByte(B(_), c) ==
      B(8 * c) * 128 + B(8 * c + 1) * 64 + B(8 * c + 2) * 32 + B(8 * c + 3) * 16
    + B(8 * c + 4) * 8 + B(8 * c + 5) * 4 + B(8 * c + 6) * 2 + B(8 * c + 7)

\* binary digit pos (0 = least significant) of a byte
BitAt(byte, pos) == (byte \div (2 ^ pos)) % 2

\* the bit emitted for index k (from 0)
EmittedBit(k) == bits[k + 1]

\* the bit of the square wave of period P at index k: 1 iff (k mod P) >= P/2
SquareBit(P, k) == IF (k % P) >= (P \div 2) THEN 1 ELSE 0

\* ------------------------------------------------------------- C1
\* C1: with curve = square_idx::<P> and N_8 = N/8, every emitted bit i is 1
\* iff (i mod P) >= P/2, the call does not fault, and the returned bytes hold
\* these bits 8 per byte, most significant first; N = 16, P = 4 returns
\* [0b00110011, 0b00110011] and N = 32, P = 6 returns
\* [0b00011100, 0b01110001, 0b11000111, 0b00011100].
C1_SquareWave ==
    curve.kind = "square" =>
      /\ \A k \in 0..(Len(bits) - 1) : EmittedBit(k) = SquareBit(curve.P, k)
      /\ ValidParams => ~Faulted
      /\ (ValidParams /\ Returned) =>
           /\ Len(x) = N \div 8
           /\ \A c \in 0..(Len(x) - 1) :
                x[c + 1] = MsbFirstByte(LAMBDA k : SquareBit(curve.P, k), c)
      /\ (Returned /\ N = 16 /\ N_8 = 2 /\ curve.P = 4) => x = <<51, 51>>
      /\ (Returned /\ N = 32 /\ N_8 = 4 /\ curve.P = 6) => x = <<28, 113, 199, 28>>

C1_Witness ==
    /\ Returned
    /\ curve = [kind |-> "square", P |-> 6]
    /\ N = 32
    /\ N_8 = 4
    /\ x = <<28, 113, 199, 28>>

\* ------------------------------------------------------------- C2
\* C2: the bit emitted for index k is stored in byte (k div 8) of the output
\* at bit position 7 - (k mod 8), for every curve; with N_8 = N/8 the returned
\* bytes hold all N bits this way.
C2_PackingOrder ==
    /\ \A k \in 0..(8 * Len(x) - 1) :
         BitAt(x[(k \div 8) + 1], 7 - (k % 8)) = EmittedBit(k)
    /\ (ValidParams /\ Returned) => 8 * Len(x) = N

C2_Witness ==
    /\ Returned
    /\ ValidParams
    /\ curve.kind = "fn"
    /\ bits = <<1, 0, 1, 1, 0, 0, 0, 0>>
    /\ x = <<176>>

\* ------------------------------------------------------------- C3
\* C3: with N a multiple of 8 and N_8 = N/8 the call does not fault and what
\* it returns has exactly N/8 bytes; with N = 0 the curve is never evaluated
\* and the returned sequence is empty.
C3_Length ==
    ValidParams =>
      /\ ~Faulted
      /\ Returned => Len(x) = N \div 8
      /\ N = 0 => (evals = 0 /\ bits = <<>> /\ x = <<>>)

C3_Witness ==
    /\ Returned
    /\ N = 32
    /\ N_8 = 4
    /\ Len(x) = 4

\* the degenerate case of C3 is reached as well
C3_WitnessZero ==
    /\ Returned
    /\ N = 0
    /\ N_8 = 0
    /\ x = <<>>

\* ------------------------------------------------------------- C4
\* C4: when N % 8 /= 0 the call never gets past the assertion, whatever N_8
\* and the curve: it never returns, no sample is evaluated and no bit or byte
\* is emitted.
C4_Precondition ==
    N % 8 # 0 =>
      /\ pc \in {"entry", "panic_assert"}
      /\ evals = 0
      /\ i = 0
      /\ bits = <<>>
      /\ x = <<>>

C4_Witness ==
    /\ pc = "panic_assert"
    /\ N = 12
    /\ N_8 = 1
    /\ evals = 0

\* ------------------------------------------------------------- C5
\* C5: in every step of the modulation, if qe is exactly 0.0 after adding the
\* sample then the emitted bit is 0 and qe becomes 1.0, and a bit 1 is only
\* emitted when qe is strictly greater than 0.0 after adding the sample.
C5_TieBreak ==
    [][ (pc = "modulate" /\ i' = i + 1) =>
          LET t == qe + v'
          IN  /\ Len(bits') = i'
              /\ t = 0 => (bits'[i'] = 0 /\ qe' = One)
              /\ bits'[i'] = 1 => t > 0 ]_vars

\* a tie reached by cancellation: a 0 bit that left qe at exactly 1.0
C5_Witness ==
    /\ pc = "modulate"
    /\ i > 1
    /\ v # 0
    /\ bits[i] = 0
    /\ qe = One

\* ------------------------------------------------------------- C6
\* C6 as stated, on the calls that have bits to lose (N > 0): with N % 8 == 0
\* and N_8 /= N/8, a call with N_8 < N/8 never returns, and a call with
\* N_8 > N/8 returns truncated or garbage output: bytes that do not hold all
\* N bits, or that differ from their packing.
C6_Original ==
    (N > 0 /\ N % 8 = 0 /\ N_8 # N \div 8) =>
      /\ N_8 < N \div 8 => ~Returned
      /\ (N_8 > N \div 8 /\ Returned) =>
           \/ 8 * Len(x) < N
           \/ \E c \in 0..(Len(x) - 1) : x[c + 1] # MsbFirstByte(EmittedBit, c)

\* C6 amended: with N % 8 == 0 and N_8 < N/8 the call never returns and its
\* only fault is the capacity overflow, raised once all N samples are
\* modulated and N_8 bytes are packed; with N_8 > N/8 the call never faults
\* and returns exactly N/8 bytes, the complete and correct packing of all N
\* bits (the vector is merely shorter than its capacity N_8).
C6_CapacityMismatch ==
    (N % 8 = 0 /\ N_8 # N \div 8) =>
      /\ N_8 < N \div 8 =>
           /\ ~Returned
           /\ pc # "panic_assert"
           /\ pc = "panic_overflow" => (Len(bits) = N /\ Len(x) = N_8)
           /\ (pc = "pack" /\ Len(x) = N_8) => ~ENABLED Return
      /\ N_8 > N \div 8 =>
           /\ ~Faulted
           /\ Returned =>
                /\ Len(x) = N \div 8
                /\ Len(bits) = N
                /\ \A c \in 0..(Len(x) - 1) : x[c + 1] = MsbFirstByte(EmittedBit, c)

C6_Witness ==
    /\ pc = "panic_overflow"
    /\ N = 16
    /\ N_8 = 1
    /\ Len(x) = 1

\* the other half of C6 is reached as well
C6_WitnessLarger ==
    /\ Returned
    /\ N = 16
    /\ N_8 = 5
    /\ Len(x) = 2

C8_SineVector ==
    (curve.kind = "sine" /\ N = 32 /\ N_8 = 4) =>
      /\ ~Faulted
      /\ Returned => x = <<119, 253, 144, 2>>

C8_Witness ==
    /\ Returned
    /\ curve.kind = "sine"
    /\ N = 32
    /\ N_8 = 4
    /\ Len(x) = 4

====
